---- MODULE Spec2Model ----
(***************************************************************************)
(* A model of the ZIP reader of zip-rs: src/src/read.rs (ZipArchive,       *)
(* ZipFile, central_header_to_zip_file, parse_extra_field) and             *)
(* src/src/compression.rs (CompressionMethod).                             *)
(*                                                                         *)
(* The byte source is modelled byte for byte and parsed little-endian as   *)
(* the code parses it.  Unsigned 32- and 64-bit quantities are kept as     *)
(* four 16-bit limbs, least significant first, so that offsets up to       *)
(* 2^32-1 and 64-bit sums keep their width.                                *)
(*                                                                         *)
(* The modules spec.rs (trailer), crc32.rs (checksum reader) and cp437.rs  *)
(* are not among the sources; the operators that stand for them follow the *)
(* specification text and say so.                                          *)
(***************************************************************************)
EXTENDS Integers, Sequences, FiniteSets, TLC

VARIABLES
    pc,       \* "new" | "open" | "failed": the archive session; "cm", "xf": the function runs
    source,   \* the seekable byte source R
    patch,    \* where the source differs from the well-formed archive it was made from
    cursor,   \* the source's read/seek position (u64)
    archive,  \* the result of ZipArchive::new: files and names_map, or the error
    handle,   \* the live ZipFile, or NoHandle
    last,     \* the last call and what it returned
    cm,       \* CompressionMethod::from_u16 / to_u16 on one code
    xf        \* parse_extra_field: the walker's loop state

vars == <<pc, source, patch, cursor, archive, handle, last, cm, xf>>

\* `let x = e;` followed by F(x): e is evaluated once
Bind(e, F(_)) == CHOOSE y \in {F(x) : x \in {e}} : TRUE

(***************************************************************************)
(* Unsigned 64-bit arithmetic on 16-bit limbs.                             *)
(***************************************************************************)
W == 2^16

Zero64 == <<0, 0, 0, 0>>

\* usize/u16/u32 -> u64 (`as u64`), for values TLC can hold as an integer
Nat64(n) == <<n % W, (n \div W) % W, 0, 0>>

\* u64 + u64: the wrapped sum and whether it overflowed 64 bits
Add64(a, b) ==
    LET s1 == a[1] + b[1]
        s2 == a[2] + b[2] + (s1 \div W)
        s3 == a[3] + b[3] + (s2 \div W)
        s4 == a[4] + b[4] + (s3 \div W)
    IN  [val |-> <<s1 % W, s2 % W, s3 % W, s4 % W>>, carry |-> s4 \div W > 0]

Plus(a, n) ==
    IF a[1] + n < W THEN <<a[1] + n, a[2], a[3], a[4]>> ELSE Add64(a, Nat64(n)).val

Lt64(a, b) ==
    \/ a[4] < b[4]
    \/ a[4] = b[4] /\ a[3] < b[3]
    \/ a[4] = b[4] /\ a[3] = b[3] /\ a[2] < b[2]
    \/ a[4] = b[4] /\ a[3] = b[3] /\ a[2] = b[2] /\ a[1] < b[1]

\* a - b for a >= b
Sub64(a, b) ==
    LET d1 == a[1] - b[1]
        b1 == IF d1 < 0 THEN 1 ELSE 0
        d2 == a[2] - b[2] - b1
        b2 == IF d2 < 0 THEN 1 ELSE 0
        d3 == a[3] - b[3] - b2
        b3 == IF d3 < 0 THEN 1 ELSE 0
        d4 == a[4] - b[4] - b3
    IN  <<d1 % W, d2 % W, d3 % W, d4 % W>>

IsSmall(a) == a[3] = 0 /\ a[4] = 0 /\ a[2] < 2^14

Val(a) == a[1] + a[2] * W

Min(x, y) == IF x < y THEN x ELSE y

(***************************************************************************)
(* The byte source: io::Cursor over a byte vector.  `bytes` are the stored *)
(* bytes; a run of holeLen zero bytes may sit after the first holeAt of    *)
(* them, so that a source longer than TLC can enumerate is still a source. *)
(***************************************************************************)
MkSource(bs) == [bytes |-> bs, holeAt |-> Len(bs), holeLen |-> Zero64]

SourceLen(src) == Add64(Nat64(Len(src.bytes)), src.holeLen).val

\* the byte at position p, or -1 at and past the end of the source
ByteAt(src, p) ==
    IF IsSmall(p) /\ Val(p) < src.holeAt THEN src.bytes[Val(p) + 1]
    ELSE IF Lt64(p, Add64(Nat64(src.holeAt), src.holeLen).val) THEN 0
    ELSE Bind(Sub64(p, src.holeLen), LAMBDA q :
             IF IsSmall(q) /\ Val(q) < Len(src.bytes) THEN src.bytes[Val(q) + 1]
             ELSE -1)

\* the number of bytes from position p to the end of the source, capped at n
Available(src, p, n) ==
    Bind(SourceLen(src), LAMBDA end :
        IF Lt64(p, end)
        THEN Bind(Sub64(end, p), LAMBDA d : IF IsSmall(d) THEN Min(n, Val(d)) ELSE n)
        ELSE 0)

\* Read::read on the cursor: up to n bytes, fewer at the end of the source
ReadSome(src, pos, n) ==
    IF src.holeLen = Zero64 /\ pos[2] = 0 /\ pos[3] = 0 /\ pos[4] = 0
    THEN IF pos[1] < Len(src.bytes)
         THEN SubSeq(src.bytes, pos[1] + 1, Min(pos[1] + n, Len(src.bytes)))
         ELSE <<>>
    ELSE [i \in 1 .. Available(src, pos, n) |-> ByteAt(src, Plus(pos, i - 1))]

\* podio ReadPodExt::read_exact: all n bytes or an I/O error
ReadExact(src, pos, n) ==
    Bind(ReadSome(src, pos, n), LAMBDA got :
        [ok |-> Len(got) = n, val |-> got, pos |-> Plus(pos, n)])

\* podio read_u16::<LittleEndian>
ReadU16(src, pos) ==
    Bind(ReadExact(src, pos, 2), LAMBDA r :
        [ok |-> r.ok, val |-> IF r.ok THEN r.val[1] + 256 * r.val[2] ELSE 0, pos |-> r.pos])

\* podio read_u32::<LittleEndian>, widened to u64
ReadU32(src, pos) ==
    Bind(ReadExact(src, pos, 4), LAMBDA r :
        [ok  |-> r.ok,
         val |-> IF r.ok
                 THEN <<r.val[1] + 256 * r.val[2], r.val[3] + 256 * r.val[4], 0, 0>>
                 ELSE Zero64,
         pos |-> r.pos])

(***************************************************************************)
(* Errors (result::ZipError as read.rs raises it).                         *)
(***************************************************************************)
IoError == "Io"
FileNotFound == "FileNotFound"
InvalidCentral == "InvalidArchive: Invalid Central Directory header"
InvalidLocal == "InvalidArchive: Invalid local file header"
InvalidTrailer == "InvalidArchive: Could not find central directory end"
UnsupportedMultiDisk == "UnsupportedArchive: Support for multi-disk files is not implemented"
UnsupportedEncrypted == "UnsupportedArchive: Encrypted files are not supported"
UnsupportedMethod == "UnsupportedArchive: Compression method not supported"
InvalidChecksum == "Invalid checksum"

(***************************************************************************)
(* compression.rs                                                          *)
(***************************************************************************)
U16Max == 65535

Stored == <<"Stored">>

Unsupported(v) == <<"Unsupported", v>>

from_u16_off_by_one(val) == IF val <= 1 THEN Stored ELSE Unsupported(val)

from_u16(val) == IF val = 0 THEN Stored ELSE Unsupported(val)

to_u16(m) == IF m = Stored THEN 0 ELSE m[2]

(***************************************************************************)
(* Name decoding (read.rs 183-187).  String::from_utf8_lossy is modelled   *)
(* on the bytes 0x00-0xBF: an ASCII byte is itself, a continuation byte    *)
(* with no lead byte becomes U+FFFD.  FromCp437 (cp437.rs) keeps ASCII and *)
(* maps 0x80-0x8F by the code page's first upper row.  The sources of this *)
(* model keep name bytes below 0x90.                                       *)
(***************************************************************************)
ReplacementChar == 65533

Cp437Row80 == <<199, 252, 233, 226, 228, 224, 229, 231, 234, 235, 232, 239, 238, 236, 196, 197>>

Utf8LossyChar(b) == IF b < 128 THEN b ELSE ReplacementChar

Cp437Char(b) == IF b < 128 THEN b ELSE IF b < 144 THEN Cp437Row80[b - 127] ELSE W + b

FromUtf8Lossy(raw) == [i \in 1 .. Len(raw) |-> Utf8LossyChar(raw[i])]

FromCp437(raw) == [i \in 1 .. Len(raw) |-> Cp437Char(raw[i])]

(***************************************************************************)
(* parse_extra_field (read.rs 234-248).  One iteration of the while loop   *)
(* is ExtraStep; the cursor is an io::Cursor over the extra bytes, whose   *)
(* seek accepts any position at or past the end.                           *)
(***************************************************************************)
\* read.rs 238: (reader.position() as usize) < data.len()
ExtraContinues(data, pos) == IsSmall(pos) /\ Val(pos) < Len(data)

\* read.rs 240-245
ExtraStep(data, pos) ==
    Bind(ReadU16(MkSource(data), pos), LAMBDA kind :
        IF ~kind.ok THEN [ok |-> FALSE, pos |-> pos]
        ELSE Bind(ReadU16(MkSource(data), kind.pos), LAMBDA len :
            IF ~len.ok THEN [ok |-> FALSE, pos |-> pos]
            ELSE [ok |-> TRUE, pos |-> Plus(len.pos, len.val)]))

RECURSIVE ExtraWalk(_, _)
ExtraWalk(data, pos) ==
    IF ExtraContinues(data, pos)
    THEN Bind(ExtraStep(data, pos), LAMBDA s :
             IF s.ok THEN ExtraWalk(data, s.pos) ELSE [ok |-> FALSE, err |-> IoError])
    ELSE [ok |-> TRUE, err |-> ""]

parse_extra_field(data) == ExtraWalk(data, Zero64)

(***************************************************************************)
(* central_header_to_zip_file (read.rs 152-232).                           *)
(***************************************************************************)
CENTRAL_DIRECTORY_HEADER_SIGNATURE == <<19280, 513, 0, 0>>     \* 0x02014b50
LOCAL_FILE_HEADER_SIGNATURE == <<19280, 1027, 0, 0>>           \* 0x04034b50
CENTRAL_DIRECTORY_END_SIGNATURE == <<19280, 1541, 0, 0>>       \* 0x06054b50

magic_and_header == 4 + 22 + 2 + 2

\* the sum without the four signature bytes
DataStart_no_magic(offset, file_name_length, extra_field_length) ==
    Bind(Add64(offset, Nat64(22 + 2 + 2)), LAMBDA a1 :
    Bind(Add64(a1.val, Nat64(file_name_length)), LAMBDA a2 :
    Bind(Add64(a2.val, Nat64(extra_field_length)), LAMBDA a3 :
        [val |-> a3.val, overflow |-> a1.carry \/ a2.carry \/ a3.carry])))

\* read.rs 209: offset + magic_and_header + file_name_length + extra_field_length
DataStart(offset, file_name_length, extra_field_length) ==
    Bind(Add64(offset, Nat64(magic_and_header)), LAMBDA a1 :
    Bind(Add64(a1.val, Nat64(file_name_length)), LAMBDA a2 :
    Bind(Add64(a2.val, Nat64(extra_field_length)), LAMBDA a3 :
        [val |-> a3.val, overflow |-> a1.carry \/ a2.carry \/ a3.carry])))

NoFile == [encrypted |-> FALSE, compression_method |-> Stored, crc32 |-> Zero64,
           compressed_size |-> Zero64, uncompressed_size |-> Zero64,
           file_name |-> <<>>, header_start |-> Zero64, data_start |-> Zero64]

\* stage: how far the parse got: "central" (the local header not yet
\* visited), "local" (its signature read), "resolved" (data_start computed)
HeaderFail(e, stage) ==
    [ok |-> FALSE, err |-> e, file |-> NoFile, pos |-> Zero64, overflow |-> FALSE,
     stage |-> stage]

\* a little-endian field of a block of bytes already read
U16At(block, k) == block[k + 1] + 256 * block[k + 2]

U32At(block, k) == <<U16At(block, k), U16At(block, k + 2), 0, 0>>

\* read.rs 161-178: the eighteen fixed fields after the signature are read
\* one after another with no decision between them; `fixed` is those 42
\* bytes, and each field is taken at the place its read finds it
CentralFields(fixed) ==
    [flags |-> U16At(fixed, 4),
     compression_method |-> U16At(fixed, 6),
     crc32 |-> U32At(fixed, 12),
     compressed_size |-> U32At(fixed, 16),
     uncompressed_size |-> U32At(fixed, 20),
     file_name_length |-> U16At(fixed, 24),
     extra_field_length |-> U16At(fixed, 26),
     file_comment_length |-> U16At(fixed, 28),
     offset |-> U32At(fixed, 38)]

\* read.rs 197-232: the local header, the result, the extra field
LocalHeader(src, f, file_name_raw, extra_field, return_position) ==
    Bind(ReadU32(src, f.offset), LAMBDA signature :
    IF ~signature.ok THEN HeaderFail(IoError, "local")
    ELSE IF signature.val # LOCAL_FILE_HEADER_SIGNATURE THEN HeaderFail(InvalidLocal, "local")
    ELSE
    Bind(ReadU16(src, Plus(signature.pos, 22)), LAMBDA file_name_length :
    IF ~file_name_length.ok THEN HeaderFail(IoError, "local")
    ELSE
    Bind(ReadU16(src, file_name_length.pos), LAMBDA extra_field_length :
    IF ~extra_field_length.ok THEN HeaderFail(IoError, "local")
    ELSE
    Bind(DataStart(f.offset, file_name_length.val, extra_field_length.val), LAMBDA data_start :
    Bind(parse_extra_field(extra_field), LAMBDA extras :
    IF ~extras.ok
    THEN [HeaderFail(extras.err, "resolved") EXCEPT !.overflow = data_start.overflow]
    ELSE [ok |-> TRUE, err |-> "",
          file |-> [encrypted |-> f.flags % 2 = 1,
                    compression_method |-> from_u16(f.compression_method),
                    crc32 |-> f.crc32,
                    compressed_size |-> f.compressed_size,
                    uncompressed_size |-> f.uncompressed_size,
                    file_name |-> IF (f.flags \div 2^11) % 2 # 0
                                  THEN FromUtf8Lossy(file_name_raw)
                                  ELSE FromCp437(file_name_raw),
                    header_start |-> f.offset,
                    data_start |-> data_start.val],
          pos |-> return_position,
          overflow |-> data_start.overflow,
          stage |-> "resolved"])))))

central_header_to_zip_file(src, pos) ==
    Bind(ReadU32(src, pos), LAMBDA signature :
    IF ~signature.ok THEN HeaderFail(IoError, "central")
    ELSE IF signature.val # CENTRAL_DIRECTORY_HEADER_SIGNATURE
    THEN HeaderFail(InvalidCentral, "central")
    ELSE
    Bind(ReadExact(src, signature.pos, 42), LAMBDA fixed :
    IF ~fixed.ok THEN HeaderFail(IoError, "central")
    ELSE
    Bind(CentralFields(fixed.val), LAMBDA f :
    Bind(ReadExact(src, fixed.pos, f.file_name_length), LAMBDA file_name_raw :
    IF ~file_name_raw.ok THEN HeaderFail(IoError, "central")
    ELSE
    Bind(ReadExact(src, file_name_raw.pos, f.extra_field_length), LAMBDA extra_field :
    IF ~extra_field.ok THEN HeaderFail(IoError, "central")
    ELSE
    Bind(ReadExact(src, extra_field.pos, f.file_comment_length), LAMBDA file_comment_raw :
    IF ~file_comment_raw.ok THEN HeaderFail(IoError, "central")
    ELSE LocalHeader(src, f, file_name_raw.val, extra_field.val, file_comment_raw.pos)))))))

(***************************************************************************)
(* spec::CentralDirectoryEnd::find_and_parse (spec.rs is not among the     *)
(* sources).  From the specification, 4.1 and 6: scan backward from the    *)
(* end of the source for the end-of-directory signature, a comment of up   *)
(* to 65,535 bytes allowed; parse the fields after it; an archive          *)
(* structure error when no signature is found in the window.               *)
(***************************************************************************)
TrailerSize == 22

NoFooter == [disk_number |-> 0, disk_with_central_directory |-> 0,
             number_of_files_on_this_disk |-> 0, number_of_files |-> 0,
             central_directory_size |-> Zero64, central_directory_offset |-> Zero64]

\* the number of positions the backward scan visits after the first
TrailerWindow(src) ==
    Bind(SourceLen(src), LAMBDA end :
        IF Lt64(end, Nat64(TrailerSize)) THEN -1
        ELSE Bind(Sub64(end, Nat64(TrailerSize)), LAMBDA d :
                 IF IsSmall(d) THEN Min(Val(d), U16Max) ELSE U16Max))

TrailerAt(src, end, k) ==
    Bind(ReadU32(src, Sub64(end, Nat64(TrailerSize + k))), LAMBDA sig :
        sig.ok /\ sig.val = CENTRAL_DIRECTORY_END_SIGNATURE)

\* the first position of the backward scan that holds the signature, as a
\* distance from the last position a trailer can start at; -1 when none does
TrailerScan(src, end, window) ==
    IF window < 0 THEN -1
    ELSE IF TrailerAt(src, end, 0) THEN 0
    ELSE Bind({k \in 1 .. window : TrailerAt(src, end, k)}, LAMBDA hits :
             IF hits = {} THEN -1
             ELSE CHOOSE k \in hits : \A j \in hits : k <= j)

TrailerFail(e) == [ok |-> FALSE, err |-> e, val |-> NoFooter, pos |-> Zero64]

find_and_parse(src) ==
    Bind(SourceLen(src), LAMBDA end :
    Bind(TrailerScan(src, end, TrailerWindow(src)), LAMBDA k :
    IF k < 0 THEN TrailerFail(InvalidTrailer)
    ELSE
    Bind(Sub64(end, Nat64(TrailerSize + k)), LAMBDA start :
    Bind(ReadExact(src, Plus(start, 4), TrailerSize - 4), LAMBDA fixed :
    IF ~fixed.ok THEN TrailerFail(IoError)
    ELSE
    Bind(ReadExact(src, fixed.pos, U16At(fixed.val, 16)), LAMBDA comment :
    IF ~comment.ok THEN TrailerFail(IoError)
    ELSE [ok |-> TRUE, err |-> "",
          val |-> [disk_number |-> U16At(fixed.val, 0),
                   disk_with_central_directory |-> U16At(fixed.val, 2),
                   number_of_files_on_this_disk |-> U16At(fixed.val, 4),
                   number_of_files |-> U16At(fixed.val, 6),
                   central_directory_size |-> U32At(fixed.val, 8),
                   central_directory_offset |-> U32At(fixed.val, 12)],
          pos |-> comment.pos])))))

(***************************************************************************)
(* ZipArchive::new (read.rs 66-86).  names_map is a function from decoded  *)
(* names to 0-based indices; HashMap::insert replaces an earlier index.    *)
(* Beside the archive's fields the result records the trace of the call:   *)
(* sought (the seek to directory_start was made), parsed (the calls of     *)
(* central_header_to_zip_file), resolved (how many of them computed        *)
(* data_start), overflow (a data_start sum left 64 bits) and reader (where *)
(* the source's cursor was left).                                          *)
(***************************************************************************)
EmptyMap == [n \in {} |-> 0]

\* an insert that keeps the index already registered under the key
MapInsert_first_wins(m, key, value) ==
    [n \in DOMAIN m \cup {key} |-> IF n \in DOMAIN m THEN m[n] ELSE value]

\* HashMap::insert (read.rs 81)
MapInsert(m, key, value) ==
    [n \in DOMAIN m \cup {key} |-> IF n = key THEN value ELSE m[n]]

NoArchive == [ok |-> FALSE, err |-> "", files |-> <<>>, names_map |-> EmptyMap,
              sought |-> FALSE, parsed |-> 0, resolved |-> 0, overflow |-> FALSE,
              reader |-> Zero64]

\* Err(e): no ZipArchive is built and the reader is dropped
OpenFail(e, sought, parsed, resolved, overflow) ==
    [ok |-> FALSE, err |-> e, files |-> <<>>, names_map |-> EmptyMap,
     sought |-> sought, parsed |-> parsed, resolved |-> resolved, overflow |-> overflow,
     reader |-> Zero64]

\* a loop that stops at the record that does not parse and keeps what it has
RECURSIVE ReadDirectory_skips_bad(_, _, _, _, _, _)
ReadDirectory_skips_bad(src, pos, todo, files, names_map, overflow) ==
    IF todo = 0
    THEN [ok |-> TRUE, err |-> "", files |-> files, names_map |-> names_map,
          sought |-> TRUE, parsed |-> Len(files), resolved |-> Len(files),
          overflow |-> overflow, reader |-> pos]
    ELSE Bind(central_header_to_zip_file(src, pos), LAMBDA file :
         IF ~file.ok
         THEN [ok |-> TRUE, err |-> "", files |-> files, names_map |-> names_map,
               sought |-> TRUE, parsed |-> Len(files) + 1, resolved |-> Len(files),
               overflow |-> overflow, reader |-> pos]
         ELSE Bind(<<Append(files, file.file),
                     MapInsert(names_map, file.file.file_name, Len(files))>>, LAMBDA acc :
                  ReadDirectory_skips_bad(src, file.pos, todo - 1, acc[1], acc[2],
                                          overflow \/ file.overflow)))

\* the for loop of read.rs 78-83, `todo` iterations left
RECURSIVE ReadDirectory(_, _, _, _, _, _)
ReadDirectory(src, pos, todo, files, names_map, overflow) ==
    IF todo = 0
    THEN [ok |-> TRUE, err |-> "", files |-> files, names_map |-> names_map,
          sought |-> TRUE, parsed |-> Len(files), resolved |-> Len(files),
          overflow |-> overflow, reader |-> pos]
    ELSE Bind(central_header_to_zip_file(src, pos), LAMBDA file :
         IF ~file.ok
         THEN OpenFail(file.err, TRUE, Len(files) + 1,
                       Len(files) + (IF file.stage = "resolved" THEN 1 ELSE 0),
                       overflow \/ file.overflow)
         ELSE Bind(<<Append(files, file.file),
                     MapInsert(names_map, file.file.file_name, Len(files))>>, LAMBDA acc :
                  ReadDirectory(src, file.pos, todo - 1, acc[1], acc[2],
                                overflow \/ file.overflow)))

\* an open that compares the disk numbers only after the directory is read
new_checks_disks_late(src) ==
    Bind(find_and_parse(src), LAMBDA footer :
    IF ~footer.ok THEN OpenFail(footer.err, FALSE, 0, 0, FALSE)
    ELSE Bind(ReadDirectory(src, footer.val.central_directory_offset,
                            footer.val.number_of_files_on_this_disk, <<>>, EmptyMap, FALSE),
              LAMBDA built :
              IF built.ok /\ footer.val.disk_number # footer.val.disk_with_central_directory
              THEN OpenFail(UnsupportedMultiDisk, built.sought, built.parsed,
                            built.resolved, built.overflow)
              ELSE built))

new(src) ==
    Bind(find_and_parse(src), LAMBDA footer :
    IF ~footer.ok THEN OpenFail(footer.err, FALSE, 0, 0, FALSE)
    ELSE IF footer.val.disk_number # footer.val.disk_with_central_directory
    THEN OpenFail(UnsupportedMultiDisk, FALSE, 0, 0, FALSE)
    ELSE ReadDirectory(src, footer.val.central_directory_offset,
                       footer.val.number_of_files_on_this_disk, <<>>, EmptyMap, FALSE))

\* ZipArchive::len (read.rs 100-103)
len(arch) == Len(arch.files)

(***************************************************************************)
(* crc32::Crc32Reader (crc32.rs is not among the sources).  From the       *)
(* specification, 4.6: every byte read is folded into a running checksum;  *)
(* when the wrapped reader is exhausted the read ends normally if the      *)
(* running checksum equals the declared one and fails otherwise.  The      *)
(* checksum itself is a collaborator; a polynomial hash modulo a prime     *)
(* stands for it, which like CRC-32 changes whenever one byte changes.     *)
(***************************************************************************)
ChecksumModulus == 65521

ChecksumUpdate(crc, b) == (crc * 31 + b + 1) % ChecksumModulus

\* the checksum state after `bytes`, folded in order (by halves, which
\* visits the bytes in the same order)
RECURSIVE Crc32Update(_, _)
Crc32Update(crc, bytes) ==
    IF Len(bytes) = 0 THEN crc
    ELSE IF Len(bytes) = 1 THEN ChecksumUpdate(crc, bytes[1])
    ELSE Bind(Crc32Update(crc, SubSeq(bytes, 1, Len(bytes) \div 2)), LAMBDA half :
             Crc32Update(half, SubSeq(bytes, Len(bytes) \div 2 + 1, Len(bytes))))

Crc32Of(bytes) == Nat64(Crc32Update(0, bytes))

NoHandle == [live |-> FALSE, index |-> 0, limit |-> Zero64, check |-> Zero64,
             crc |-> 0, delivered |-> <<>>]

\* Crc32Reader::new over io::Take: ZipFileReader::Stored of read.rs 134-136
Crc32ReaderNew(index, limit, checksum) ==
    [live |-> TRUE, index |-> index, limit |-> limit, check |-> checksum,
     crc |-> 0, delivered |-> <<>>]

\* io::Take::read (the limit_reader of read.rs 128) on a buffer of buflen bytes
TakeRead(src, cur, limit, buflen) ==
    IF limit = Zero64 THEN <<>>
    ELSE ReadSome(src, cur, IF IsSmall(limit) THEN Min(buflen, Val(limit)) ELSE buflen)

Crc32ReaderRead(src, cur, h, buflen) ==
    Bind(TakeRead(src, cur, h.limit, buflen), LAMBDA got :
        IF got = <<>> /\ Nat64(h.crc) # h.check
        THEN [res |-> InvalidChecksum, cursor |-> cur, handle |-> h]
        ELSE [res |-> IF got = <<>> THEN "eof" ELSE "data",
              cursor |-> Plus(cur, Len(got)),
              handle |-> [h EXCEPT !.limit = Sub64(h.limit, Nat64(Len(got))),
                                   !.crc = Crc32Update(h.crc, got),
                                   !.delivered = h.delivered \o got]])

\* impl Read for ZipFile (read.rs 283-287)
ZipFileRead(src, cur, zf, buf_len) == Crc32ReaderRead(src, cur, zf, buf_len)

(***************************************************************************)
(* ZipArchive::by_index and by_name (read.rs 106-141).  The result carries *)
(* where the call left the source's cursor.                                *)
(***************************************************************************)
\* a lookup that tests the compression method before the encrypted flag
by_index_method_first(arch, cur, file_number) ==
    IF file_number >= Len(arch.files)
    THEN [res |-> FileNotFound, cursor |-> cur, handle |-> NoHandle]
    ELSE Bind(arch.files[file_number + 1], LAMBDA data :
             IF data.compression_method # Stored
             THEN [res |-> UnsupportedMethod, cursor |-> data.data_start, handle |-> NoHandle]
             ELSE IF data.encrypted
             THEN [res |-> UnsupportedEncrypted, cursor |-> cur, handle |-> NoHandle]
             ELSE [res |-> "Ok", cursor |-> data.data_start,
                   handle |-> Crc32ReaderNew(file_number, data.compressed_size, data.crc32)])

\* a lookup that bounds the stream by the uncompressed size
by_index_takes_uncompressed(arch, cur, file_number) ==
    IF file_number >= Len(arch.files)
    THEN [res |-> FileNotFound, cursor |-> cur, handle |-> NoHandle]
    ELSE Bind(arch.files[file_number + 1], LAMBDA data :
             IF data.encrypted
             THEN [res |-> UnsupportedEncrypted, cursor |-> cur, handle |-> NoHandle]
             ELSE IF data.compression_method = Stored
             THEN [res |-> "Ok", cursor |-> data.data_start,
                   handle |-> Crc32ReaderNew(file_number, data.uncompressed_size, data.crc32)]
             ELSE [res |-> UnsupportedMethod, cursor |-> data.data_start, handle |-> NoHandle])

\* a lookup that seeks before it checks the bounds: a file_number at or past
\* the end takes the last entry's data_start
by_index_seeks_first(arch, cur, file_number) ==
    IF file_number >= Len(arch.files)
    THEN [res |-> FileNotFound,
          cursor |-> IF Len(arch.files) = 0 THEN Nat64(1)
                     ELSE arch.files[Len(arch.files)].data_start,
          handle |-> NoHandle]
    ELSE Bind(arch.files[file_number + 1], LAMBDA data :
             IF data.encrypted
             THEN [res |-> UnsupportedEncrypted, cursor |-> cur, handle |-> NoHandle]
             ELSE IF data.compression_method = Stored
             THEN [res |-> "Ok", cursor |-> data.data_start,
                   handle |-> Crc32ReaderNew(file_number, data.compressed_size, data.crc32)]
             ELSE [res |-> UnsupportedMethod, cursor |-> data.data_start, handle |-> NoHandle])

\* a lookup that hands the stream no declared checksum
by_index_no_checksum(arch, cur, file_number) ==
    IF file_number >= Len(arch.files)
    THEN [res |-> FileNotFound, cursor |-> cur, handle |-> NoHandle]
    ELSE Bind(arch.files[file_number + 1], LAMBDA data :
             IF data.encrypted
             THEN [res |-> UnsupportedEncrypted, cursor |-> cur, handle |-> NoHandle]
             ELSE IF data.compression_method = Stored
             THEN [res |-> "Ok", cursor |-> data.data_start,
                   handle |-> Crc32ReaderNew(file_number, data.compressed_size, Zero64)]
             ELSE [res |-> UnsupportedMethod, cursor |-> data.data_start, handle |-> NoHandle])

by_index(arch, cur, file_number) ==
    IF file_number >= Len(arch.files)
    THEN [res |-> FileNotFound, cursor |-> cur, handle |-> NoHandle]
    ELSE Bind(arch.files[file_number + 1], LAMBDA data :
             IF data.encrypted
             THEN [res |-> UnsupportedEncrypted, cursor |-> cur, handle |-> NoHandle]
             ELSE IF data.compression_method = Stored
             THEN [res |-> "Ok", cursor |-> data.data_start,
                   handle |-> Crc32ReaderNew(file_number, data.compressed_size, data.crc32)]
             ELSE [res |-> UnsupportedMethod, cursor |-> data.data_start, handle |-> NoHandle])

by_name(arch, cur, name) ==
    IF name \in DOMAIN arch.names_map
    THEN by_index(arch, cur, arch.names_map[name])
    ELSE [res |-> FileNotFound, cursor |-> cur, handle |-> NoHandle]

\* ZipFile::name (read.rs 258-260)
name(arch, h) == arch.files[h.index + 1].file_name

(***************************************************************************)
(* The sources the model opens: well-formed archives written in the        *)
(* layout of the specification's section 6 from a few entries, and the     *)
(* same archives with one byte changed.                                    *)
(***************************************************************************)
MaxEntries == 2

MaxBuf == 2

Entries ==
    { [file_name |-> <<65>>, flags |-> 0, method |-> 0, content |-> <<7, 9>>,
       extra |-> <<>>, local_extra |-> <<1, 2>>],
      [file_name |-> <<65>>, flags |-> 1, method |-> 8, content |-> <<5>>,
       extra |-> <<>>, local_extra |-> <<>>],
      [file_name |-> <<128>>, flags |-> 2048, method |-> 0, content |-> <<>>,
       extra |-> <<1, 0, 1, 0, 9>>, local_extra |-> <<>>] }

U16LE(n) == <<n % 256, n \div 256>>

U32LE(a) == U16LE(a[1]) \o U16LE(a[2])

\* the local header with the given name-length and extra-length fields
LocalHeaderBytes(e, name_length, extra_length) ==
    U32LE(LOCAL_FILE_HEADER_SIGNATURE) \o U16LE(20) \o U16LE(e.flags) \o U16LE(e.method)
    \o U16LE(0) \o U16LE(33) \o U32LE(Crc32Of(e.content))
    \o U32LE(Nat64(Len(e.content))) \o U32LE(Nat64(Len(e.content)))
    \o U16LE(name_length) \o U16LE(extra_length)

LocalBytes(e) ==
    LocalHeaderBytes(e, Len(e.file_name), Len(e.local_extra))
    \o e.file_name \o e.local_extra \o e.content

CentralBytes(e, offset) ==
    U32LE(CENTRAL_DIRECTORY_HEADER_SIGNATURE) \o U16LE(20) \o U16LE(20)
    \o U16LE(e.flags) \o U16LE(e.method) \o U16LE(0) \o U16LE(33)
    \o U32LE(Crc32Of(e.content))
    \o U32LE(Nat64(Len(e.content))) \o U32LE(Nat64(Len(e.content)))
    \o U16LE(Len(e.file_name)) \o U16LE(Len(e.extra)) \o U16LE(0)
    \o U16LE(0) \o U16LE(0) \o U32LE(Zero64) \o U32LE(offset)
    \o e.file_name \o e.extra

TrailerBytes(count, size, offset) ==
    U32LE(CENTRAL_DIRECTORY_END_SIGNATURE) \o U16LE(0) \o U16LE(0)
    \o U16LE(count) \o U16LE(count) \o U32LE(Nat64(size)) \o U32LE(offset) \o U16LE(0)

RECURSIVE LocalsOf(_, _)
LocalsOf(es, i) == IF i > Len(es) THEN <<>> ELSE LocalBytes(es[i]) \o LocalsOf(es, i + 1)

\* where entry i's local header starts
RECURSIVE OffsetOf(_, _)
OffsetOf(es, i) == IF i = 1 THEN 0 ELSE OffsetOf(es, i - 1) + Len(LocalBytes(es[i - 1]))

RECURSIVE CentralsOf(_, _)
CentralsOf(es, i) ==
    IF i > Len(es) THEN <<>>
    ELSE CentralBytes(es[i], Nat64(OffsetOf(es, i))) \o CentralsOf(es, i + 1)

\* local headers and contents, then the directory, then the trailer
ArchiveBytes(es) ==
    Bind(<<LocalsOf(es, 1), CentralsOf(es, 1)>>, LAMBDA parts :
        parts[1] \o parts[2] \o TrailerBytes(Len(es), Len(parts[2]), Nat64(Len(parts[1]))))

EntryLists == UNION {[1 .. n -> Entries] : n \in 0 .. MaxEntries}

\* the entry (1-based) whose content holds the byte at 1-based index `at`, or 0
ContentEntry(es, at) ==
    Bind({i \in 1 .. Len(es) :
            /\ at > OffsetOf(es, i + 1) - Len(es[i].content)
            /\ at <= OffsetOf(es, i + 1)}, LAMBDA hit :
        IF hit = {} THEN 0 ELSE CHOOSE i \in hit : TRUE)

NoPatch == [at |-> 0, delta |-> 0, entry |-> 0]

\* one byte, at 1-based index `at`, moved up by delta (modulo 256);
\* entry: the entry whose content the byte belongs to, or 0
Patches(es, bytes) ==
    {NoPatch} \cup {[at |-> at, delta |-> delta, entry |-> ContentEntry(es, at)] :
                       at \in 1 .. Len(bytes), delta \in {1}}

Patched(bytes, p) ==
    IF p.at = 0 THEN bytes ELSE [bytes EXCEPT ![p.at] = (@ + p.delta) % 256]

NoCall == [op |-> "none", arg |-> <<>>, res |-> ""]

NoCm == [val |-> 0, method |-> <<>>, code |-> 0, step |-> 0]

NoXf == [data |-> <<>>, pos |-> Zero64, state |-> "off", steps |-> 0]

(***************************************************************************)
(* The archive session: open, lookups, reads, and the end of a handle's    *)
(* borrow.  by_index and by_name borrow the archive mutably for the life   *)
(* of the ZipFile, so a lookup is possible only when no handle is live.    *)
(***************************************************************************)
Init ==
    /\ pc = "new"
    /\ \E es \in EntryLists :
         \E bytes \in {ArchiveBytes(es)} :
            \E p \in Patches(es, bytes) :
               /\ source = MkSource(Patched(bytes, p))
               /\ patch = p
    /\ cursor = Zero64
    /\ archive = NoArchive
    /\ handle = NoHandle
    /\ last = NoCall
    /\ cm = NoCm
    /\ xf = NoXf

Open ==
    /\ pc = "new"
    /\ \E r \in {new(source)} :
           /\ archive' = r
           /\ pc' = IF r.ok THEN "open" ELSE "failed"
           /\ cursor' = r.reader
           /\ last' = [op |-> "new", arg |-> <<>>, res |-> IF r.ok THEN "Ok" ELSE r.err]
    /\ UNCHANGED <<source, patch, handle, cm, xf>>

ByIndex(i) ==
    /\ pc = "open"
    /\ ~handle.live
    /\ \E r \in {by_index(archive, cursor, i)} :
           /\ cursor' = r.cursor
           /\ handle' = r.handle
           /\ last' = [op |-> "by_index", arg |-> i, res |-> r.res]
    /\ UNCHANGED <<pc, source, patch, archive, cm, xf>>

ByName(n) ==
    /\ pc = "open"
    /\ ~handle.live
    /\ \E r \in {by_name(archive, cursor, n)} :
           /\ cursor' = r.cursor
           /\ handle' = r.handle
           /\ last' = [op |-> "by_name", arg |-> n, res |-> r.res]
    /\ UNCHANGED <<pc, source, patch, archive, cm, xf>>

Read(k) ==
    /\ pc = "open"
    /\ handle.live
    /\ \E r \in {ZipFileRead(source, cursor, handle, k)} :
           /\ cursor' = r.cursor
           /\ handle' = r.handle
           /\ last' = [op |-> "read", arg |-> k, res |-> r.res]
    /\ UNCHANGED <<pc, source, patch, archive, cm, xf>>

\* the ZipFile goes out of scope
Drop ==
    /\ pc = "open"
    /\ handle.live
    /\ handle' = NoHandle
    /\ last' = [op |-> "drop", arg |-> <<>>, res |-> ""]
    /\ UNCHANGED <<pc, source, patch, cursor, archive, cm, xf>>

QueryNames == DOMAIN archive.names_map \cup {<<65>>, <<90>>}

Next ==
    \/ Open
    \/ \E i \in 0 .. MaxEntries + 1 : ByIndex(i)
    \/ \E n \in QueryNames : ByName(n)
    \/ \E k \in 1 .. MaxBuf : Read(k)
    \/ Drop

Spec == Init /\ [][Next]_vars

(***************************************************************************)
(* Wide sources: one entry whose local header sits past a run of zero      *)
(* bytes, so that header offsets up to 2^32-1 and local length fields up   *)
(* to 65,535 occur.  The directory record is at 0, the local header after  *)
(* the run, the trailer last.  bad_signature: the local header's first     *)
(* byte is not the signature's.                                            *)
(***************************************************************************)
WideEntry == [file_name |-> <<65>>, flags |-> 0, method |-> 0, content |-> <<80, 75>>,
              extra |-> <<>>, local_extra |-> <<>>]

WideRuns ==
    {Zero64, <<1, 0, 0, 0>>, <<65535, 0, 0, 0>>, <<0, 1, 0, 0>>, <<0, 32768, 0, 0>>,
     Sub64(<<65535, 65535, 0, 0>>, Nat64(Len(CentralBytes(WideEntry, Zero64))))}

WideLengths == {0, 1, 2, 65535}

WideSource(run, name_length, extra_length, bad_signature) ==
    Bind(CentralBytes(WideEntry, Add64(Nat64(Len(CentralBytes(WideEntry, Zero64))), run).val),
         LAMBDA central :
        [bytes   |-> central
                     \o [LocalHeaderBytes(WideEntry, name_length, extra_length)
                           EXCEPT ![1] = IF bad_signature THEN 0 ELSE @]
                     \o TrailerBytes(1, Len(central), Zero64),
         holeAt  |-> Len(central),
         holeLen |-> run])

InitWide ==
    /\ pc = "new"
    /\ \E run \in WideRuns, name_length \in WideLengths, extra_length \in WideLengths,
          bad_signature \in BOOLEAN :
          source = WideSource(run, name_length, extra_length, bad_signature)
    /\ patch = NoPatch
    /\ cursor = Zero64
    /\ archive = NoArchive
    /\ handle = NoHandle
    /\ last = NoCall
    /\ cm = NoCm
    /\ xf = NoXf

SpecWide == InitWide /\ [][Next]_vars

(***************************************************************************)
(* CompressionMethod::from_u16 then to_u16 on every 16-bit code, as the    *)
(* test from_eq_to of compression.rs runs them.                            *)
(***************************************************************************)
InitCM ==
    /\ pc = "cm"
    /\ \E v \in 0 .. U16Max : cm = [val |-> v, method |-> <<>>, code |-> 0, step |-> 0]
    /\ source = MkSource(<<>>)
    /\ patch = NoPatch
    /\ cursor = Zero64
    /\ archive = NoArchive
    /\ handle = NoHandle
    /\ last = NoCall
    /\ xf = NoXf

FromU16 ==
    /\ pc = "cm"
    /\ cm.step = 0
    /\ cm' = [cm EXCEPT !.method = from_u16(cm.val), !.step = 1]
    /\ UNCHANGED <<pc, source, patch, cursor, archive, handle, last, xf>>

ToU16 ==
    /\ pc = "cm"
    /\ cm.step = 1
    /\ cm' = [cm EXCEPT !.code = to_u16(cm.method), !.step = 2]
    /\ UNCHANGED <<pc, source, patch, cursor, archive, handle, last, xf>>

NextCM == FromU16 \/ ToU16

SpecCM == InitCM /\ [][NextCM]_vars

(***************************************************************************)
(* parse_extra_field run one loop iteration at a time on every byte        *)
(* sequence of up to MaxExtra bytes over ExtraAlphabet.                    *)
(***************************************************************************)
MaxExtra == 5

ExtraAlphabet == {0, 1, 255}

ExtraInputs == UNION {[1 .. n -> ExtraAlphabet] : n \in 0 .. MaxExtra}

InitExtra ==
    /\ pc = "xf"
    /\ \E data \in ExtraInputs :
          xf = [data |-> data, pos |-> Zero64, state |-> "loop", steps |-> 0]
    /\ source = MkSource(<<>>)
    /\ patch = NoPatch
    /\ cursor = Zero64
    /\ archive = NoArchive
    /\ handle = NoHandle
    /\ last = NoCall
    /\ cm = NoCm

\* read.rs 238-245: the loop test holds and the body runs
XfStep ==
    /\ pc = "xf"
    /\ xf.state = "loop"
    /\ ExtraContinues(xf.data, xf.pos)
    /\ \E s \in {ExtraStep(xf.data, xf.pos)} :
          xf' = IF s.ok THEN [xf EXCEPT !.pos = s.pos, !.steps = @ + 1]
                        ELSE [xf EXCEPT !.state = "err", !.steps = @ + 1]
    /\ UNCHANGED <<pc, source, patch, cursor, archive, handle, last, cm>>

\* read.rs 238, 247: the loop test fails and Ok(()) is returned
XfReturn ==
    /\ pc = "xf"
    /\ xf.state = "loop"
    /\ ~ExtraContinues(xf.data, xf.pos)
    /\ xf' = [xf EXCEPT !.state = "ok"]
    /\ UNCHANGED <<pc, source, patch, cursor, archive, handle, last, cm>>

NextExtra == XfStep \/ XfReturn

SpecExtra == InitExtra /\ [][NextExtra]_vars

(***************************************************************************)
(* Properties.                                                             *)
(***************************************************************************)
\* the entry a live handle reads
HandleFile == archive.files[handle.index + 1]

\* the last read ended the stream, normally or with a checksum mismatch
ReadEnded == last.op = "read" /\ last.res \in {"eof", InvalidChecksum}

\* the bytes of a source with no run of zeros from position start, at most
\* limit of them
BytesFrom(src, start, limit) ==
    IF IsSmall(start) /\ Val(start) < Len(src.bytes)
    THEN SubSeq(src.bytes, Val(start) + 1,
                IF IsSmall(limit) THEN Min(Len(src.bytes), Val(start) + Val(limit))
                                  ELSE Len(src.bytes))
    ELSE <<>>

\* C1: a read of an entry stream ends normally only if the checksum of all
\* the bytes delivered equals the entry's declared crc32, and ends with the
\* checksum-mismatch error otherwise; when one content byte of an otherwise
\* valid entry was changed, the read that ends the stream is that error.
C1_ChecksumGuardsEnd ==
    last.op = "read" =>
        /\ last.res = "eof" => Crc32Of(handle.delivered) = HandleFile.crc32
        /\ last.res = InvalidChecksum => Crc32Of(handle.delivered) # HandleFile.crc32
        /\ ReadEnded =>
              handle.delivered
                = BytesFrom(source, HandleFile.data_start, HandleFile.compressed_size)
        /\ (ReadEnded /\ patch.entry = handle.index + 1) => last.res = InvalidChecksum

C1_Witness ==
    /\ last.op = "read"
    /\ last.res = InvalidChecksum
    /\ patch.entry = handle.index + 1
    /\ Len(handle.delivered) = 2

\* C2 as claimed: a Stored, unencrypted entry of an archive that opened,
\* read to its end, delivers exactly uncompressed_size bytes.
C2_Original ==
    (last.op = "read" /\ last.res = "eof")
        => Nat64(Len(handle.delivered)) = HandleFile.uncompressed_size

\* C2 as amended: a Stored, unencrypted entry read until the stream ends
\* delivers the bytes of the source from data_start, compressed_size of them
\* or as many as the source holds if fewer; that is uncompressed_size bytes
\* when the record declares both sizes equal and the source holds them.
C2_DeliversCompressedSize ==
    ReadEnded =>
        /\ HandleFile.compression_method = Stored
        /\ ~HandleFile.encrypted
        /\ handle.delivered
             = BytesFrom(source, HandleFile.data_start, HandleFile.compressed_size)
        /\ IsSmall(HandleFile.compressed_size) =>
              Len(handle.delivered) <= Val(HandleFile.compressed_size)
        /\ ( /\ HandleFile.uncompressed_size = HandleFile.compressed_size
             /\ IsSmall(HandleFile.compressed_size)
             /\ IsSmall(HandleFile.data_start)
             /\ Val(HandleFile.data_start) + Val(HandleFile.compressed_size)
                  <= Len(source.bytes) )
           => Nat64(Len(handle.delivered)) = HandleFile.uncompressed_size

C2_Witness ==
    /\ last.op = "read"
    /\ last.res = "eof"
    /\ HandleFile.uncompressed_size # HandleFile.compressed_size
    /\ Len(handle.delivered) = 2

\* C3: after an open that succeeds, len() is the trailer's number of entries
\* on this disk, every one of them was parsed and is indexed (zero entries
\* included); an open that fails leaves no files and no names.
C3_LenIsDeclaredCount ==
    last.op = "new" =>
        Bind(find_and_parse(source), LAMBDA footer :
            /\ archive.ok =>
                  /\ footer.ok
                  /\ len(archive) = footer.val.number_of_files_on_this_disk
                  /\ archive.parsed = footer.val.number_of_files_on_this_disk
                  /\ DOMAIN archive.names_map
                       = {archive.files[i].file_name : i \in 1 .. len(archive)}
                  /\ pc = "open"
            /\ ~archive.ok =>
                  /\ archive.files = <<>>
                  /\ archive.names_map = EmptyMap
                  /\ last.res # "Ok"
                  /\ pc = "failed")

C3_Witness ==
    /\ last.op = "new"
    /\ archive.ok
    /\ len(archive) = 2
    /\ patch.at # 0

\* the 1-based positions of the entries named n
Named(n) == {i \in 1 .. len(archive) : archive.files[i].file_name = n}

\* C4 as claimed: by_name(n) is FileNotFound when no entry is named n, and
\* otherwise returns a handle whose name() is n.
C4_Original ==
    last.op = "by_name" =>
        IF Named(last.arg) = {}
        THEN last.res = FileNotFound
        ELSE last.res = "Ok" /\ handle.live /\ name(archive, handle) = last.arg

\* C4 as amended: by_name(n) is FileNotFound when no entry is named n;
\* otherwise it answers for the last entry named n: a handle whose name()
\* is n when that entry is Stored and not encrypted, the encryption error
\* when it is encrypted, the compression-method error when it is not Stored.
C4_ByNameLastEntry ==
    last.op = "by_name" =>
        IF Named(last.arg) = {}
        THEN last.res = FileNotFound /\ ~handle.live
        ELSE LET j == CHOOSE i \in Named(last.arg) : \A k \in Named(last.arg) : k <= i
                 f == archive.files[j]
             IN  IF f.encrypted THEN last.res = UnsupportedEncrypted /\ ~handle.live
                 ELSE IF f.compression_method # Stored
                 THEN last.res = UnsupportedMethod /\ ~handle.live
                 ELSE /\ last.res = "Ok"
                      /\ handle.live
                      /\ handle.index = j - 1
                      /\ name(archive, handle) = last.arg

C4_Witness ==
    /\ last.op = "by_name"
    /\ last.res = "Ok"
    /\ Cardinality(Named(last.arg)) = 2
    /\ name(archive, handle) = last.arg

\* the entries the last lookup addressed: by_index its file_number, by_name
\* the index registered under the name
Addressed ==
    IF last.op = "by_index" /\ last.arg < len(archive) THEN {archive.files[last.arg + 1]}
    ELSE IF last.op = "by_name" /\ last.arg \in DOMAIN archive.names_map
    THEN {archive.files[archive.names_map[last.arg] + 1]}
    ELSE {}

C6_BoundsCheckedFirst ==
    [][(pc = "open" /\ ~handle.live /\ last'.op = "by_index" /\ last'.arg >= len(archive))
         => /\ last'.res = FileNotFound
            /\ handle' = NoHandle
            /\ cursor' = cursor
            /\ archive' = archive
            /\ source' = source]_vars

C6_Witness ==
    /\ pc = "open"
    /\ len(archive) = 0
    /\ last.op = "by_index"
    /\ last.res = FileNotFound

\* C7: when the trailer's disk_number differs from
\* disk_with_central_directory, open fails with the multi-disk error, and no
\* seek to the directory was made and no central record was read.
C7_MultiDiskFirst ==
    last.op = "new" =>
        Bind(find_and_parse(source), LAMBDA footer :
            (footer.ok /\ footer.val.disk_number # footer.val.disk_with_central_directory)
               => /\ ~archive.ok
                  /\ last.res = UnsupportedMultiDisk
                  /\ ~archive.sought
                  /\ archive.parsed = 0
                  /\ pc = "failed")

C7_Witness ==
    /\ last.op = "new"
    /\ last.res = UnsupportedMultiDisk
    /\ ~archive.sought

\* C8: for every 16-bit code v, from_u16(v).to_u16() = v; from_u16(0) is
\* Stored and from_u16(v) is Unsupported(v), not Stored, for v # 0.
C8_RoundTrip ==
    /\ cm.step >= 1 =>
          /\ cm.val = 0 => cm.method = Stored
          /\ cm.val # 0 => cm.method = Unsupported(cm.val) /\ cm.method # Stored
    /\ cm.step = 2 => cm.code = cm.val

C8_Witness ==
    /\ cm.step = 2
    /\ cm.val = U16Max
    /\ cm.code = U16Max

\* the 16-bit little-endian field at position p of the source
FieldAt(src, p) == ByteAt(src, p) + 256 * ByteAt(src, Plus(p, 1))

\* C9: every entry of an archive that opened has data_start = header_start
\* + 30 + the name length + the extra length found in the local header at
\* header_start, whose signature is the local header's, and the sum stays
\* within 64 bits; a record whose local signature is wrong gets no
\* data_start.
C9_DataStartFromLocalHeader ==
    last.op = "new" =>
        /\ ~archive.overflow
        /\ archive.resolved <= archive.parsed
        /\ last.res = InvalidLocal => archive.resolved = archive.parsed - 1
        /\ archive.ok =>
              \A i \in 1 .. len(archive) :
                 LET f  == archive.files[i]
                     s1 == Add64(f.header_start, Nat64(30))
                     s2 == Add64(s1.val, Nat64(FieldAt(source, Plus(f.header_start, 26))))
                     s3 == Add64(s2.val, Nat64(FieldAt(source, Plus(f.header_start, 28))))
                 IN  /\ FieldAt(source, f.header_start) = 80 + 256 * 75
                     /\ FieldAt(source, Plus(f.header_start, 2)) = 3 + 256 * 4
                     /\ f.data_start = s3.val
                     /\ ~(s1.carry \/ s2.carry \/ s3.carry)

C9_Witness ==
    /\ last.op = "new"
    /\ archive.ok
    /\ archive.files[1].header_start = <<65535, 65535, 0, 0>>
    /\ FieldAt(source, Plus(archive.files[1].header_start, 26)) = 65535
    /\ archive.files[1].data_start[3] = 1

\* C10 as claimed: parse_extra_field returns Ok only when the triples cover
\* the extra bytes exactly; a length that carries the walk past their end
\* makes it fail.
C10_ExactCover ==
    xf.state = "ok" => xf.pos = Nat64(Len(xf.data))

====
